---- MODULE Spec2Model ----
(***************************************************************************)
(* College ERP backend: the admission -> enrollment -> semester            *)
(* progression lifecycle (admission.controller.js, student controller,     *)
(* semester.controller.js, studentSubject controller).                      *)
(*                                                                         *)
(* Every HTTP handler is a process that runs from one store call (await)   *)
(* to the next; a step of the model is one store call together with the    *)
(* synchronous code that follows it.  Several requests may be in flight.   *)
(***************************************************************************)
EXTENDS Integers, Sequences, FiniteSets, Bags, TLC

(***************************************************************************)
(* Bounds of the model                                                     *)
(***************************************************************************)
\* number of semesters created for course c1
NumSem == 2
\* largest date a request may carry; dates are 0..MaxDate
MaxDate == 1
\* the server clock (new Date()) during the observed window: requests may
\* carry earlier and later dates
Now == MaxDate - 1
\* largest number of subject ids in one bulkAssign request
MaxBatch == 2

Procs == {"p1", "p2"}
Students == {"s1", "s2"}
Courses == {"c1", "c2", "c3"}
Sessions == {"ses1", "ses2"}

None == "none"

\* Student.courseId and Student.sessionId are set at creation and no
\* handler changes them (updateStudent's schema does not accept them)
StudentCourse(s) == "c1"
StudentSession(s) == IF s = "s1" THEN "ses1" ELSE "ses2"

\* the curriculum: c1 has semesters 1..NumSem, c2 has semester 1, c3 none
SemCount(c) == CASE c = "c1" -> NumSem [] c = "c2" -> 1 [] OTHER -> 0
Semesters == {sem \in [courseId : Courses, number : 1..(NumSem + 1)] :
                 sem.number <= SemCount(sem.courseId)}

\* the result of a semester lookup that finds nothing
NoSem == [courseId |-> None, number |-> 0]

\* prisma.semester.findFirst({where: {courseId, number}})
FindSemester(c, n) ==
  IF \E sem \in Semesters : sem.courseId = c /\ sem.number = n
  THEN [courseId |-> c, number |-> n]
  ELSE NoSem

AdmissionStatuses == {"INITIATED", "PAYMENT_PENDING", "CONFIRMED", "CANCELLED"}
StudentStatuses == {"ACTIVE", "SUSPENDED", "PASSED_OUT", "ALUMNI", "DROPOUT"}
SemStatuses == {"ONGOING", "COMPLETED", "FAILED", "PROMOTED"}

VARIABLES
  studentStatus,     \* Student.status
  admissions,        \* Admission rows, in order of creation, each with its history
  studentSemesters,  \* StudentSemester rows (a bag: the rows of a table)
  studentSubjects,   \* StudentSubject rows (a bag)
  pc,                \* where each request is in its handler
  loc                \* the local variables of each request

vars == <<studentStatus, admissions, studentSemesters, studentSubjects, pc, loc>>
db == <<studentStatus, admissions, studentSemesters, studentSubjects>>

(***************************************************************************)
(* Store helpers                                                           *)
(***************************************************************************)
RECURSIVE SumOver(_, _)
SumOver(b, S) ==
  IF S = {} THEN 0
  ELSE LET x == CHOOSE y \in S : TRUE IN b[x] + SumOver(b, S \ {x})

\* number of rows of bag b that satisfy P
CountRows(b, P(_)) == SumOver(b, {r \in DOMAIN b : P(r)})

\* the rows of b, each replaced by f(row)
MapRows(b, f(_)) ==
  LET img == {f(r) : r \in DOMAIN b}
  IN [y \in img |-> SumOver(b, {r \in DOMAIN b : f(r) = y})]

SSKey(r, s, sem) == r.studentId = s /\ r.semesterId = sem

\* prisma.studentSemester.findUnique / findFirst by (studentId, semesterId)
HasSS(ss, s, sem) == \E r \in DOMAIN ss : SSKey(r, s, sem)
\* rows with status ONGOING of a student
OngoingOf(ss, s) == {r \in DOMAIN ss : r.studentId = s /\ r.status = "ONGOING"}

\* a create whose row is already marked as paid
NewSSPaid(s, sem, d) ==
  [studentId |-> s, semesterId |-> sem, status |-> "ONGOING",
   feePaid |-> TRUE, startDate |-> d]

NewSS(s, sem, d) ==
  [studentId |-> s, semesterId |-> sem, status |-> "ONGOING",
   feePaid |-> FALSE, startDate |-> d]

\* a store without the unique key: every create succeeds
CanCreateSSNoKey(ss, s, sem) == TRUE

\* the unique key studentId_semesterId: a create of an existing pair throws
CanCreateSS(ss, s, sem) == ~HasSS(ss, s, sem)
InsertSS(ss, row) == ss (+) SetToBag({row})

\* the locals of a request; resp is the last response the client received
Idle ==
  [op |-> None, adm |-> 0, student |-> None, sem |-> NoSem, status |-> None,
   fee |-> {}, date |-> 0, cur |-> None, flag |-> FALSE, batch |-> {},
   todo |-> {}, subj |-> None, subs |-> <<>>, resp |-> None]

\* the request enters its handler: its locals are rec, its next step is l
Start(p, l, rec) ==
  /\ pc' = [pc EXCEPT ![p] = l]
  /\ loc' = [loc EXCEPT ![p] = rec]

\* the handler returns response r: the request ends, its locals are gone
Finish(p, r) ==
  /\ pc' = [pc EXCEPT ![p] = "idle"]
  /\ loc' = [loc EXCEPT ![p] = [Idle EXCEPT !.resp = r]]

Goto(p, l) ==
  /\ pc' = [pc EXCEPT ![p] = l]
  /\ UNCHANGED loc

Init ==
  /\ studentStatus = [s \in Students |-> "ACTIVE"]
  /\ admissions = <<>>
  /\ studentSemesters = EmptyBag
  /\ studentSubjects = EmptyBag
  /\ pc = [p \in Procs |-> "idle"]
  /\ loc = [p \in Procs |-> Idle]

(***************************************************************************)
(* updateStudent: the explicit admin change of Student.status              *)
(***************************************************************************)
UpdateStudent(s, st) ==
  /\ studentStatus[s] # st
  /\ studentStatus' = [studentStatus EXCEPT ![s] = st]
  /\ UNCHANGED <<admissions, studentSemesters, studentSubjects, pc, loc>>

(***************************************************************************)
(* createAdmission                                                         *)
(***************************************************************************)
AdmissionExists(s, c) ==
  \E i \in 1..Len(admissions) :
     admissions[i].studentId = s /\ admissions[i].courseId = c

NewAdmission(s, c) ==
  [studentId |-> s, courseId |-> c, status |-> "INITIATED", history |-> <<>>]

CA_Begin(p, s, c) ==
  /\ pc[p] = "idle"
  /\ LET rec == [Idle EXCEPT !.op = "createAdmission", !.student = s, !.cur = c]
     IN IF AdmissionExists(s, c)
        THEN Finish(p, "AlreadyAdmitted")
        ELSE Start(p, "ca_create", rec)
  /\ UNCHANGED db

CA_Create(p) ==
  /\ pc[p] = "ca_create"
  /\ admissions' = Append(admissions, NewAdmission(loc[p].student, loc[p].cur))
  /\ Finish(p, "ok")
  /\ UNCHANGED <<studentStatus, studentSemesters, studentSubjects>>

(***************************************************************************)
(* updateAdmissionStatus (admission.controller.js)                         *)
(***************************************************************************)
\* a table that also lets an INITIATED admission be confirmed directly
validTransitionsSkip(st) ==
  CASE st = "INITIATED" -> {"PAYMENT_PENDING", "CONFIRMED", "CANCELLED"}
    [] st = "PAYMENT_PENDING" -> {"CONFIRMED", "CANCELLED"}
    [] OTHER -> {}

validTransitions(st) ==
  CASE st = "INITIATED" -> {"PAYMENT_PENDING", "CANCELLED"}
    [] st = "PAYMENT_PENDING" -> {"CONFIRMED", "CANCELLED"}
    [] st = "CONFIRMED" -> {}
    [] st = "CANCELLED" -> {}
    [] OTHER -> {}

HistoryRow(from, to) == [fromStatus |-> from, toStatus |-> to]

\* an update of the status alone, without the nested history create
ApplyTransitionStatusOnly(row, from, to) == [row EXCEPT !.status = to]

\* prisma.admission.update({data: {status, history: {create: ...}}}): one
\* nested write, the status and the history row together
ApplyTransition(row, from, to) ==
  [row EXCEPT !.status = to, !.history = Append(@, HistoryRow(from, to))]

\* findUnique of the admission, the transition check, and its early returns
UAS_Begin(p, a, t) ==
  /\ pc[p] = "idle"
  /\ LET rec == [Idle EXCEPT !.op = "updateAdmissionStatus", !.adm = a, !.status = t]
     IN IF a > Len(admissions)
        THEN Finish(p, "NotFound")
        ELSE LET cur == admissions[a].status
                 rec2 == [rec EXCEPT !.cur = cur, !.student = admissions[a].studentId]
             IN IF t \notin validTransitions(cur)
                THEN Finish(p, "InvalidTransition")
                ELSE IF cur = "CANCELLED"
                THEN Finish(p, "CancelledLocked")
                ELSE Start(p, "uas_update", rec2)
  /\ UNCHANGED db

UAS_Update(p) ==
  /\ pc[p] = "uas_update"
  /\ admissions' = [admissions EXCEPT
                      ![loc[p].adm] = ApplyTransition(@, loc[p].cur, loc[p].status)]
  /\ IF loc[p].status = "CONFIRMED"
     THEN Goto(p, "uas_student")
     ELSE /\ Finish(p, "ok")
  /\ UNCHANGED <<studentStatus, studentSemesters, studentSubjects>>

\* semester 1 of the admission's course
Sem1Of(a) == FindSemester(admissions[a].courseId, 1)

\* after the student is ACTIVE: look for semester 1; none ends the cascade
UAS_AfterStudent(p) ==
  IF Sem1Of(loc[p].adm) = NoSem
  THEN Finish(p, "ok")
  ELSE Goto(p, "uas_existing")

\* prisma.student.findUnique and the test of its status
UAS_Student(p) ==
  /\ pc[p] = "uas_student"
  /\ IF studentStatus[loc[p].student] = "ACTIVE"
     THEN UAS_AfterStudent(p)
     ELSE Goto(p, "uas_activate")
  /\ UNCHANGED db

UAS_Activate(p) ==
  /\ pc[p] = "uas_activate"
  /\ studentStatus' = [studentStatus EXCEPT ![loc[p].student] = "ACTIVE"]
  /\ UAS_AfterStudent(p)
  /\ UNCHANGED <<admissions, studentSemesters, studentSubjects>>

\* findUnique of the semester-1 row of the student
UAS_Existing(p) ==
  /\ pc[p] = "uas_existing"
  /\ pc' = [pc EXCEPT ![p] = "uas_ongoing"]
  /\ loc' = [loc EXCEPT ![p].flag =
                 HasSS(studentSemesters, loc[p].student, Sem1Of(loc[p].adm))]
  /\ UNCHANGED db

\* a cascade that takes an ONGOING row as its reason to create
CascadeCreatesIfOngoing(existing, ongoing) == ~existing /\ ongoing

\* the cascade creates the row when neither lookup found one
CascadeCreates(existing, ongoing) == ~existing /\ ~ongoing

\* findFirst of an ONGOING row of the student, and the decision
UAS_Ongoing(p) ==
  /\ pc[p] = "uas_ongoing"
  /\ IF CascadeCreates(loc[p].flag, OngoingOf(studentSemesters, loc[p].student) # {})
     THEN Goto(p, "uas_create")
     ELSE Finish(p, "ok")
  /\ UNCHANGED db

UAS_Create(p) ==
  /\ pc[p] = "uas_create"
  /\ LET s == loc[p].student
         sem == Sem1Of(loc[p].adm)
     IN IF CanCreateSS(studentSemesters, s, sem)
        THEN /\ studentSemesters' = InsertSS(studentSemesters, NewSS(s, sem, Now))
             /\ Finish(p, "ok")
        ELSE /\ UNCHANGED studentSemesters
             /\ Finish(p, "StoreError")
  /\ UNCHANGED <<studentStatus, admissions, studentSubjects>>

(***************************************************************************)
(* assignSemester (student controller)                                     *)
(***************************************************************************)
AS_Begin(p, s, sem, d) ==
  /\ pc[p] = "idle"
  /\ LET rec == [Idle EXCEPT !.op = "assignSemester", !.student = s,
                              !.sem = sem, !.date = d]
     IN IF sem.courseId # StudentCourse(s)
        THEN Finish(p, "ConstraintViolation")
        ELSE IF HasSS(studentSemesters, s, sem)
        THEN Finish(p, "AlreadyAssigned")
        ELSE Start(p, "as_ongoing", rec)
  /\ UNCHANGED db

\* ongoingSemester && startDate <= ongoingSemester.startDate
AssignBlocked(d, ongoingRow) == d <= ongoingRow.startDate

\* findFirst({status: ONGOING}) returns any one of the ONGOING rows
AS_Ongoing(p) ==
  /\ pc[p] = "as_ongoing"
  /\ LET O == OngoingOf(studentSemesters, loc[p].student)
     IN IF O = {}
        THEN Goto(p, "as_create")
        ELSE \E r \in O :
               IF AssignBlocked(loc[p].date, r)
               THEN Finish(p, "HasOngoing")
               ELSE Goto(p, "as_create")
  /\ UNCHANGED db

AS_Create(p) ==
  /\ pc[p] = "as_create"
  /\ LET s == loc[p].student
         sem == loc[p].sem
     IN IF CanCreateSS(studentSemesters, s, sem)
        THEN /\ studentSemesters' = InsertSS(studentSemesters, NewSS(s, sem, loc[p].date))
             /\ Finish(p, "ok")
        ELSE /\ UNCHANGED studentSemesters
             /\ Finish(p, "StoreError")
  /\ UNCHANGED <<studentStatus, admissions, studentSubjects>>

(***************************************************************************)
(* updateStudentSemesterStatus (student controller)                        *)
(***************************************************************************)
validStatuses == {"ONGOING", "COMPLETED", "FAILED", "PROMOTED"}

\* the truthiness of a status of a request body: an absent field
\* (undefined) and the empty string are falsy
Truthy(st) == st # None /\ st # ""

\* status && !validStatuses.includes(status)
StatusRejected(st) == Truthy(st) /\ st \notin validStatuses

\* the semester after sem in its course
NextSemester(sem) == FindSemester(sem.courseId, sem.number + 1)

\* an optional field of a request body is the set of its values: {} when
\* the field is absent (undefined)
Given(opt) == CHOOSE v \in opt : TRUE

\* data of the update: the request's value, or the one read before
UpdatedSS(r, st, fee, oldStatus, oldFee) ==
  [r EXCEPT !.status = IF Truthy(st) THEN st ELSE oldStatus,
            !.feePaid = IF fee # {} THEN Given(fee) ELSE oldFee]

USS_Begin(p, s, sem, st, fee) ==
  /\ pc[p] = "idle"
  /\ IF StatusRejected(st)
     THEN Finish(p, "InvalidStatus")
     ELSE IF ~HasSS(studentSemesters, s, sem)
     THEN Finish(p, "NotFound")
     ELSE \E r \in {x \in DOMAIN studentSemesters : SSKey(x, s, sem)} :
            Start(p, "uss_update",
                  [Idle EXCEPT !.op = "setStatus", !.student = s, !.sem = sem,
                               !.status = st, !.fee = fee, !.cur = r.status,
                               !.flag = r.feePaid])
  /\ UNCHANGED db

\* a handler that ends after the update when there is no next semester
USS_AfterUpdateNoPassOut(p) ==
  IF loc[p].status = "COMPLETED" /\ NextSemester(loc[p].sem) # NoSem
  THEN Goto(p, "uss_next")
  ELSE Finish(p, "ok")

\* what follows the update, by the requested status
USS_AfterUpdate(p) ==
  IF loc[p].status = "COMPLETED"
  THEN IF NextSemester(loc[p].sem) # NoSem
       THEN Goto(p, "uss_next")
       ELSE Goto(p, "uss_passout")
  ELSE Finish(p, "ok")

USS_Update(p) ==
  /\ pc[p] = "uss_update"
  /\ studentSemesters' =
       MapRows(studentSemesters,
               LAMBDA r : IF SSKey(r, loc[p].student, loc[p].sem)
                          THEN UpdatedSS(r, loc[p].status, loc[p].fee,
                                         loc[p].cur, loc[p].flag)
                          ELSE r)
  /\ USS_AfterUpdate(p)
  /\ UNCHANGED <<studentStatus, admissions, studentSubjects>>

\* the COMPLETED cascade creates the next row when the lookup found none
USS_Next(p) ==
  /\ pc[p] = "uss_next"
  /\ IF HasSS(studentSemesters, loc[p].student, NextSemester(loc[p].sem))
     THEN Finish(p, "ok")
     ELSE Goto(p, "uss_create")
  /\ UNCHANGED db

USS_Create(p) ==
  /\ pc[p] = "uss_create"
  /\ LET s == loc[p].student
         sem == NextSemester(loc[p].sem)
     IN IF CanCreateSS(studentSemesters, s, sem)
        THEN /\ studentSemesters' = InsertSS(studentSemesters, NewSS(s, sem, Now))
             /\ Finish(p, "ok")
        ELSE /\ UNCHANGED studentSemesters
             /\ Finish(p, "StoreError")
  /\ UNCHANGED <<studentStatus, admissions, studentSubjects>>

\* no next semester: the course is complete
USS_PassOut(p) ==
  /\ pc[p] = "uss_passout"
  /\ studentStatus' = [studentStatus EXCEPT ![loc[p].student] = "PASSED_OUT"]
  /\ Finish(p, "ok")
  /\ UNCHANGED <<admissions, studentSemesters, studentSubjects>>

(***************************************************************************)
(* bulkUpdateStudentSemesterStatus (semester.controller.js)                *)
(***************************************************************************)
\* updateMany data: an undefined field leaves the column as it is
BulkUpdatedSS(r, st, fee) ==
  [r EXCEPT !.status = IF Truthy(st) THEN st ELSE @,
            !.feePaid = IF fee # {} THEN Given(fee) ELSE @]

BUSS_Begin(p, sem, ids, st, fee) ==
  /\ pc[p] = "idle"
  /\ IF ids = {}
     THEN Finish(p, "BadRequest")
     ELSE IF StatusRejected(st)
     THEN Finish(p, "InvalidStatus")
     ELSE Start(p, "buss_update",
                [Idle EXCEPT !.op = "bulkSetStatus", !.sem = sem, !.status = st,
                             !.fee = fee, !.batch = ids, !.todo = ids])
  /\ UNCHANGED db

\* one updateMany of the Promise.all
BUSS_Update(p) ==
  /\ pc[p] = "buss_update"
  /\ \E s \in loc[p].todo :
       /\ studentSemesters' =
            MapRows(studentSemesters,
                    LAMBDA r : IF SSKey(r, s, loc[p].sem)
                               THEN BulkUpdatedSS(r, loc[p].status, loc[p].fee)
                               ELSE r)
       /\ loc' = [loc EXCEPT ![p].todo = @ \ {s}]
       /\ pc' = [pc EXCEPT ![p] = IF loc[p].todo = {s} THEN "buss_find" ELSE @]
  /\ UNCHANGED <<studentStatus, admissions, studentSubjects>>

\* findMany of the updated records, then the COMPLETED cascade if any
BUSS_Find(p) ==
  /\ pc[p] = "buss_find"
  /\ LET updated == {s \in loc[p].batch : HasSS(studentSemesters, s, loc[p].sem)}
     IN IF loc[p].status = "COMPLETED" /\ NextSemester(loc[p].sem) # NoSem
           /\ updated # {}
        THEN /\ pc' = [pc EXCEPT ![p] = "buss_next"]
             /\ loc' = [loc EXCEPT ![p].todo = updated]
        ELSE Finish(p, "ok")
  /\ UNCHANGED db

\* the loop over the updated records: the lookup of the next-semester row
BUSS_Next(p) ==
  /\ pc[p] = "buss_next"
  /\ \E s \in loc[p].todo :
       IF HasSS(studentSemesters, s, NextSemester(loc[p].sem))
       THEN IF loc[p].todo = {s}
            THEN Finish(p, "ok")
            ELSE /\ loc' = [loc EXCEPT ![p].todo = @ \ {s}]
                 /\ UNCHANGED pc
       ELSE /\ pc' = [pc EXCEPT ![p] = "buss_create"]
            /\ loc' = [loc EXCEPT ![p].student = s]
  /\ UNCHANGED db

BUSS_Create(p) ==
  /\ pc[p] = "buss_create"
  /\ LET s == loc[p].student
         sem == NextSemester(loc[p].sem)
     IN IF CanCreateSS(studentSemesters, s, sem)
        THEN /\ studentSemesters' = InsertSS(studentSemesters, NewSS(s, sem, Now))
             /\ IF loc[p].todo = {s}
                THEN Finish(p, "ok")
                ELSE /\ pc' = [pc EXCEPT ![p] = "buss_next"]
                     /\ loc' = [loc EXCEPT ![p].todo = @ \ {s}]
        ELSE /\ UNCHANGED studentSemesters
             /\ Finish(p, "StoreError")
  /\ UNCHANGED <<studentStatus, admissions, studentSubjects>>

\* the body of the 200 response: the message carries updatedRecords.length
\* and data carries the records
BUSS_Response(updatedRecords) ==
  [updatedCount |-> Cardinality(updatedRecords), updatedRecords |-> updatedRecords]

(***************************************************************************)
(* autoAssignStudents (semester.controller.js)                             *)
(***************************************************************************)
RowsOf(ss, s) == {r \in DOMAIN ss : r.studentId = s}

\* the where clause of student.findMany
AutoAssignSelected(ss, s, sem, crit) ==
  /\ StudentCourse(s) = sem.courseId
  /\ studentStatus[s] = "ACTIVE"
  /\ crit.sessionId # None => StudentSession(s) = crit.sessionId
  /\ crit.minSemesterNumber # {} =>
       \E r \in RowsOf(ss, s) :
          /\ r.semesterId.number <= Given(crit.minSemesterNumber)
          /\ r.status = "COMPLETED"

\* a filter that does not look for an ONGOING row
AutoAssignEligibleNoOngoingTest(ss, s, sem) ==
  /\ ~\E r \in RowsOf(ss, s) : r.semesterId = sem
  /\ \/ sem.number = 1
     \/ \E r \in RowsOf(ss, s) :
          r.semesterId.number = sem.number - 1 /\ r.status = "COMPLETED"

\* the filter over the selected students
AutoAssignEligible(ss, s, sem) ==
  /\ ~\E r \in RowsOf(ss, s) : r.semesterId = sem
  /\ ~\E r \in RowsOf(ss, s) : r.status = "ONGOING"
  /\ \/ sem.number = 1
     \/ \E r \in RowsOf(ss, s) :
          r.semesterId.number = sem.number - 1 /\ r.status = "COMPLETED"

\* prisma.$transaction of creates: all rows or none
CanCreateAll(ss, S, sem) == \A s \in S : CanCreateSS(ss, s, sem)
InsertAll(ss, S, sem) ==
  ss (+) SetToBag({NewSS(s, sem, Now) : s \in S})

AA_Begin(p, sem, crit) ==
  /\ pc[p] = "idle"
  /\ Start(p, "aa_create",
           [Idle EXCEPT !.op = "autoAssign", !.sem = sem,
              !.batch = {s \in Students :
                           /\ AutoAssignSelected(studentSemesters, s, sem, crit)
                           /\ AutoAssignEligible(studentSemesters, s, sem)}])
  /\ UNCHANGED db

AA_Create(p) ==
  /\ pc[p] = "aa_create"
  /\ IF CanCreateAll(studentSemesters, loc[p].batch, loc[p].sem)
     THEN /\ studentSemesters' = InsertAll(studentSemesters, loc[p].batch, loc[p].sem)
          /\ Finish(p, "ok")
     ELSE /\ UNCHANGED studentSemesters
          /\ Finish(p, "StoreError")
  /\ UNCHANGED <<studentStatus, admissions, studentSubjects>>

(***************************************************************************)
(* promoteStudents (semester.controller.js)                                *)
(***************************************************************************)
\* a selection that also takes the students still ONGOING in the semester
CompletedOrOngoingIn(ss, sem) ==
  {r.studentId : r \in {x \in DOMAIN ss : x.semesterId = sem
                                           /\ x.status \in {"COMPLETED", "ONGOING"}}}

\* the students with a COMPLETED row in the semester
CompletedIn(ss, sem) ==
  {r.studentId : r \in {x \in DOMAIN ss : x.semesterId = sem /\ x.status = "COMPLETED"}}

PR_Begin(p, sem) ==
  /\ pc[p] = "idle"
  /\ IF NextSemester(sem) = NoSem
     THEN Finish(p, "NotFound")
     ELSE Start(p, "pr_existing",
                [Idle EXCEPT !.op = "promote", !.sem = sem,
                             !.batch = CompletedIn(studentSemesters, sem)])
  /\ UNCHANGED db

\* a filter that keeps the students already present in the next semester
NewAssignmentsAll(ss, S, next) == S

\* newAssignments: the completed students not in existingStudentIds
NewAssignments(ss, S, next) == {s \in S : ~HasSS(ss, s, next)}

\* the COMPLETED students that have no row in the next semester
PR_Existing(p) ==
  /\ pc[p] = "pr_existing"
  /\ pc' = [pc EXCEPT ![p] = "pr_create"]
  /\ loc' = [loc EXCEPT ![p].batch =
                NewAssignments(studentSemesters, @, NextSemester(loc[p].sem))]
  /\ UNCHANGED db

PR_Create(p) ==
  /\ pc[p] = "pr_create"
  /\ IF CanCreateAll(studentSemesters, loc[p].batch, NextSemester(loc[p].sem))
     THEN /\ studentSemesters' =
               InsertAll(studentSemesters, loc[p].batch, NextSemester(loc[p].sem))
          /\ Goto(p, "pr_mark")
     ELSE /\ UNCHANGED studentSemesters
          /\ Finish(p, "StoreError")
  /\ UNCHANGED <<studentStatus, admissions, studentSubjects>>

\* updateMany of the source rows of the promoted students
PR_Mark(p) ==
  /\ pc[p] = "pr_mark"
  /\ studentSemesters' =
       MapRows(studentSemesters,
               LAMBDA r : IF r.semesterId = loc[p].sem /\ r.studentId \in loc[p].batch
                          THEN [r EXCEPT !.status = "PROMOTED"]
                          ELSE r)
  /\ Finish(p, "ok")
  /\ UNCHANGED <<studentStatus, admissions, studentSubjects>>

(***************************************************************************)
(* The audit writes of semester.controller.js: the handlers await          *)
(* prisma.auditLog.create inside their try block, so a write that throws   *)
(* reaches the catch and the request answers the error.  (The other        *)
(* controllers write through logAudit, which catches the error itself:     *)
(* their steps are the same whether the write fails or not.)               *)
(***************************************************************************)
\* bulkSetStatus: the audit write after findMany throws, before the cascade
BUSS_AuditFails(p) ==
  /\ pc[p] = "buss_find"
  /\ Finish(p, "AuditError")
  /\ UNCHANGED db

\* bulkSetStatus: the audit write after a cascade create throws; the loop
\* over the remaining records is abandoned
BUSS_CreateAuditFails(p) ==
  /\ pc[p] = "buss_create"
  /\ CanCreateSS(studentSemesters, loc[p].student, NextSemester(loc[p].sem))
  /\ studentSemesters' =
       InsertSS(studentSemesters, NewSS(loc[p].student, NextSemester(loc[p].sem), Now))
  /\ Finish(p, "AuditError")
  /\ UNCHANGED <<studentStatus, admissions, studentSubjects>>

\* autoAssign: the audit write after the transaction throws
AA_AuditFails(p) ==
  /\ pc[p] = "aa_create"
  /\ CanCreateAll(studentSemesters, loc[p].batch, loc[p].sem)
  /\ studentSemesters' = InsertAll(studentSemesters, loc[p].batch, loc[p].sem)
  /\ Finish(p, "AuditError")
  /\ UNCHANGED <<studentStatus, admissions, studentSubjects>>

\* promote: the audit write after updateMany throws
PR_AuditFails(p) ==
  /\ pc[p] = "pr_mark"
  /\ studentSemesters' =
       MapRows(studentSemesters,
               LAMBDA r : IF r.semesterId = loc[p].sem /\ r.studentId \in loc[p].batch
                          THEN [r EXCEPT !.status = "PROMOTED"]
                          ELSE r)
  /\ Finish(p, "AuditError")
  /\ UNCHANGED <<studentStatus, admissions, studentSubjects>>

(***************************************************************************)
(* updateAdmissionStatus of admin.controller.js, mounted by admin.route.js *)
(* at PATCH /admissions/:id/status with no validation of the body          *)
(***************************************************************************)
\* the table validTransitions of the admin handler
adminValidTransitions(st) ==
  CASE st = "DRAFT" -> {"SUBMITTED"}
    [] st = "SUBMITTED" -> {"APPROVED", "REJECTED"}
    [] st = "APPROVED" -> {"PAYMENT_PENDING"}
    [] st = "PAYMENT_PENDING" -> {"PAID"}
    [] st = "REJECTED" -> {}
    [] st = "PAID" -> {}
    [] OTHER -> {}

\* the statuses a request body may name
AdminTargets ==
  AdmissionStatuses \cup {"DRAFT", "SUBMITTED", "APPROVED", "REJECTED", "PAID"}

\* the values the status column of Admission accepts: the enum of the
\* data model (the Prisma schema is not part of the sources)
StatusColumnAccepts(st) == st \in AdmissionStatuses

\* findUnique of the admission, the table lookup, and the early returns
AdminUAS_Begin(p, a, t) ==
  /\ pc[p] = "idle"
  /\ IF a > Len(admissions)
     THEN Finish(p, "NotFound")
     ELSE LET cur == admissions[a].status
          IN IF t \notin adminValidTransitions(cur)
             THEN Finish(p, "InvalidTransition")
             ELSE IF cur = "REJECTED"
             THEN Finish(p, "RejectedLocked")
             ELSE Start(p, "adminuas_update",
                        [Idle EXCEPT !.op = "adminUpdateAdmissionStatus", !.adm = a,
                                     !.status = t, !.cur = cur])
  /\ UNCHANGED db

\* prisma.admission.update of the status with the nested history create
AdminUAS_Update(p) ==
  /\ pc[p] = "adminuas_update"
  /\ IF StatusColumnAccepts(loc[p].status)
     THEN /\ admissions' = [admissions EXCEPT
                              ![loc[p].adm] = ApplyTransition(@, loc[p].cur, loc[p].status)]
          /\ Finish(p, "ok")
     ELSE /\ UNCHANGED admissions
          /\ Finish(p, "StoreError")
  /\ UNCHANGED <<studentStatus, studentSemesters, studentSubjects>>

(***************************************************************************)
(* Subject selection (studentSubject controller)                           *)
(***************************************************************************)
\* the subjects of semester 1 of c1, and one subject of semester 1 of c2
Subjects == {"mjcA", "mjcB", "secA", "secB", "mjcC"}
SubjectType(x) == IF x \in {"secA", "secB"} THEN "SEC" ELSE "MJC"
SubjectSemester(x) ==
  IF x = "mjcC" THEN [courseId |-> "c2", number |-> 1]
  ELSE [courseId |-> "c1", number |-> 1]

\* the callers: a member of staff (ADMIN or HOD), or a student (role STUDENT).
\* The handlers are modelled as the controller exports them, with their own
\* role tests; studentSubject.routes.js mounts them behind
\* restrictTo('ADMIN', 'HOD').
Staff == "staff"
Users == {Staff} \cup Students

\* subject.type === 'MJC' || subject.type === 'MIC' || subject.type === 'MDC'
\* a test that treats every subject type as exclusive
IsExclusiveAnyType(ty) == TRUE

\* subject.type === 'MJC' || subject.type === 'MIC' || subject.type === 'MDC'
IsExclusive(ty) == ty = "MJC" \/ ty = "MIC" \/ ty = "MDC"

NewSub(s, x, sem) == [studentId |-> s, subjectId |-> x, semesterId |-> sem]

\* findUnique by studentId_subjectId_semesterId
HasSub(sb, s, x, sem) == NewSub(s, x, sem) \in DOMAIN sb

\* findFirst({studentId, semesterId, subject: {type}})
SameTypeExists(sb, s, sem, ty) ==
  \E r \in DOMAIN sb :
     r.studentId = s /\ r.semesterId = sem /\ SubjectType(r.subjectId) = ty

\* the unique key studentId_subjectId_semesterId
CanCreateSub(sb, s, x, sem) == ~HasSub(sb, s, x, sem)

\* the role check, the lookups of student, subject and semester, the two
\* cross-reference checks, and the findUnique of the student's enrollment
CSS_Begin(p, u, s, x, sem) ==
  /\ pc[p] = "idle"
  /\ IF u \in Students /\ u # s
     THEN Finish(p, "Forbidden")
     ELSE IF SubjectSemester(x) # sem
     THEN Finish(p, "ConstraintViolation")
     ELSE IF sem.courseId # StudentCourse(s)
     THEN Finish(p, "ConstraintViolation")
     ELSE IF ~HasSS(studentSemesters, s, sem)
     THEN Finish(p, "NotEnrolled")
     ELSE Start(p, "css_existing",
                [Idle EXCEPT !.op = "assign", !.student = s, !.subj = x, !.sem = sem])
  /\ UNCHANGED db

CSS_Existing(p) ==
  /\ pc[p] = "css_existing"
  /\ IF HasSub(studentSubjects, loc[p].student, loc[p].subj, loc[p].sem)
     THEN Finish(p, "AlreadyAssigned")
     ELSE IF IsExclusive(SubjectType(loc[p].subj))
     THEN Goto(p, "css_sametype")
     ELSE Goto(p, "css_create")
  /\ UNCHANGED db

CSS_SameType(p) ==
  /\ pc[p] = "css_sametype"
  /\ IF SameTypeExists(studentSubjects, loc[p].student, loc[p].sem,
                       SubjectType(loc[p].subj))
     THEN Finish(p, "ExclusiveTypeConflict")
     ELSE Goto(p, "css_create")
  /\ UNCHANGED db

CSS_Create(p) ==
  /\ pc[p] = "css_create"
  /\ LET s == loc[p].student
         x == loc[p].subj
         sem == loc[p].sem
     IN IF CanCreateSub(studentSubjects, s, x, sem)
        THEN /\ studentSubjects' = studentSubjects (+) SetToBag({NewSub(s, x, sem)})
             /\ Finish(p, "ok")
        ELSE /\ UNCHANGED studentSubjects
             /\ Finish(p, "StoreError")
  /\ UNCHANGED <<studentStatus, admissions, studentSemesters>>

\* the members of a list of subject ids
Range(q) == {q[i] : i \in 1..Len(q)}

\* subject.findMany({id: {in: subjectIds}, semesterId}): the distinct
\* subjects of the list that belong to the semester
SubjectsFound(q, sem) == {x \in Range(q) : SubjectSemester(x) = sem}

\* mjcCount > 1 || micCount > 1 || mdcCount > 1
BatchTypeConflict(found) ==
  \E ty \in {"MJC", "MIC", "MDC"} :
     Cardinality({x \in found : SubjectType(x) = ty}) > 1

BAS_Begin(p, s, sem, q) ==
  /\ pc[p] = "idle"
  /\ IF Len(q) = 0
     THEN Finish(p, "BadRequest")
     ELSE IF ~HasSS(studentSemesters, s, sem)
     THEN Finish(p, "NotEnrolled")
     ELSE IF Cardinality(SubjectsFound(q, sem)) # Len(q)
     THEN Finish(p, "ConstraintViolation")
     ELSE IF BatchTypeConflict(SubjectsFound(q, sem))
     THEN Finish(p, "ExclusiveTypeConflict")
     ELSE Start(p, "bas_existing",
                [Idle EXCEPT !.op = "bulkAssign", !.student = s, !.sem = sem,
                             !.subs = q])
  /\ UNCHANGED db

\* findMany of the student's rows of the semester for the listed subjects
BAS_Existing(p) ==
  /\ pc[p] = "bas_existing"
  /\ IF \E x \in Range(loc[p].subs) :
          HasSub(studentSubjects, loc[p].student, x, loc[p].sem)
     THEN Finish(p, "AlreadyAssigned")
     ELSE Goto(p, "bas_create")
  /\ UNCHANGED db

\* creates run one by one outside a transaction: the rows before the
\* failing create stay
BAS_CreateEach(p) ==
  /\ pc[p] = "bas_create"
  /\ LET s == loc[p].student
         sem == loc[p].sem
         q == loc[p].subs
         can == {x \in Range(q) : CanCreateSub(studentSubjects, s, x, sem)}
     IN /\ studentSubjects' =
             studentSubjects (+) SetToBag({NewSub(s, x, sem) : x \in can})
        /\ Finish(p, IF can = Range(q) THEN "ok" ELSE "StoreError")
  /\ UNCHANGED <<studentStatus, admissions, studentSemesters>>

\* prisma.$transaction of the creates: all rows or none
BAS_Create(p) ==
  /\ pc[p] = "bas_create"
  /\ LET s == loc[p].student
         sem == loc[p].sem
         q == loc[p].subs
     IN IF \A x \in Range(q) : CanCreateSub(studentSubjects, s, x, sem)
        THEN /\ studentSubjects' =
                  studentSubjects (+) SetToBag({NewSub(s, x, sem) : x \in Range(q)})
             /\ Finish(p, "ok")
        ELSE /\ UNCHANGED studentSubjects
             /\ Finish(p, "StoreError")
  /\ UNCHANGED <<studentStatus, admissions, studentSemesters>>

\* findUnique of the assignment, and the ownership check of a student
DSS_Begin(p, u, row) ==
  /\ pc[p] = "idle"
  /\ LET rec == [Idle EXCEPT !.op = "deleteSubject", !.student = row.studentId,
                              !.subj = row.subjectId, !.sem = row.semesterId]
     IN IF row \notin DOMAIN studentSubjects
        THEN Finish(p, "NotFound")
        ELSE IF u \in Students
        THEN IF u # row.studentId
             THEN Finish(p, "Forbidden")
             ELSE Start(p, "dss_semester", rec)
        ELSE Start(p, "dss_delete", rec)
  /\ UNCHANGED db

\* a variant of the test that stops the delete for a COMPLETED semester only
DeleteBlockedIfCompleted(ss, s, sem) ==
  \E r \in DOMAIN ss : SSKey(r, s, sem) /\ r.status = "COMPLETED"

\* studentSemester && studentSemester.status !== 'ONGOING'
DeleteBlocked(ss, s, sem) ==
  \E r \in DOMAIN ss : SSKey(r, s, sem) /\ r.status # "ONGOING"

DSS_Semester(p) ==
  /\ pc[p] = "dss_semester"
  /\ IF DeleteBlocked(studentSemesters, loc[p].student, loc[p].sem)
     THEN Finish(p, "SemesterClosed")
     ELSE Goto(p, "dss_delete")
  /\ UNCHANGED db

\* prisma.studentSubject.delete: a record that is gone makes it throw
DSS_Delete(p) ==
  /\ pc[p] = "dss_delete"
  /\ LET row == NewSub(loc[p].student, loc[p].subj, loc[p].sem)
     IN IF row \in DOMAIN studentSubjects
        THEN /\ studentSubjects' = studentSubjects (-) SetToBag({row})
             /\ Finish(p, "ok")
        ELSE /\ UNCHANGED studentSubjects
             /\ Finish(p, "StoreError")
  /\ UNCHANGED <<studentStatus, admissions, studentSemesters>>

(***************************************************************************)
(* The admission lifecycle under concurrent requests: the admission of    *)
(* student s1 to course c1 has been created; the student is ACTIVE or was  *)
(* suspended by an administrator.                                          *)
(***************************************************************************)
SemestersOf(c) == {sem \in Semesters : sem.courseId = c}

InitAdm ==
  /\ studentStatus \in {f \in [Students -> {"ACTIVE", "SUSPENDED"}] : f["s2"] = "ACTIVE"}
  /\ admissions = <<NewAdmission("s1", "c1")>>
  /\ studentSemesters = EmptyBag
  /\ studentSubjects = EmptyBag
  /\ pc = [p \in Procs |-> "idle"]
  /\ loc = [p \in Procs |-> Idle]

NextAdm ==
  \/ \E p \in Procs : \E a \in 1..(Len(admissions) + 1) : \E t \in AdmissionStatuses :
        UAS_Begin(p, a, t)
  \/ \E p \in Procs : UAS_Update(p)
  \/ \E p \in Procs : UAS_Student(p)
  \/ \E p \in Procs : UAS_Activate(p)
  \/ \E p \in Procs : UAS_Existing(p)
  \/ \E p \in Procs : UAS_Ongoing(p)
  \/ \E p \in Procs : UAS_Create(p)
  \/ \E p \in Procs : \E sem \in SemestersOf("c1") : AS_Begin(p, "s1", sem, MaxDate)
  \/ \E p \in Procs : AS_Ongoing(p)
  \/ \E p \in Procs : AS_Create(p)

SpecAdm == InitAdm /\ [][NextAdm]_vars

(***************************************************************************)
(* The two routes that change the status of an admission, two requests     *)
(* at a time                                                               *)
(***************************************************************************)
NextAdmRoutes ==
  \/ \E p \in Procs : \E a \in 1..(Len(admissions) + 1) : \E t \in AdmissionStatuses :
        UAS_Begin(p, a, t)
  \/ \E p \in Procs : UAS_Update(p)
  \/ \E p \in Procs : UAS_Student(p)
  \/ \E p \in Procs : UAS_Activate(p)
  \/ \E p \in Procs : UAS_Existing(p)
  \/ \E p \in Procs : UAS_Ongoing(p)
  \/ \E p \in Procs : UAS_Create(p)
  \/ \E p \in Procs : \E a \in 1..(Len(admissions) + 1) : \E t \in AdminTargets :
        AdminUAS_Begin(p, a, t)
  \/ \E p \in Procs : AdminUAS_Update(p)

SpecAdmRoutes == InitAdm /\ [][NextAdmRoutes]_vars

(***************************************************************************)
(* Two concurrent createAdmission requests for one student                 *)
(***************************************************************************)
NextCreateAdm ==
  \/ \E p \in Procs : \E c \in Courses : CA_Begin(p, "s1", c)
  \/ \E p \in Procs : CA_Create(p)

SpecCreateAdm == Init /\ [][NextCreateAdm]_vars

\* no request is in flight
Quiet == \A p \in Procs : pc[p] = "idle"

(***************************************************************************)
(* The same handlers with one request at a time                            *)
(***************************************************************************)
NextAdmSeq ==
  \/ \E st \in {"ACTIVE", "SUSPENDED"} : Quiet /\ UpdateStudent("s1", st)
  \/ \E c \in Courses : CA_Begin("p1", "s1", c)
  \/ CA_Create("p1")
  \/ \E a \in 1..(Len(admissions) + 1) : \E t \in AdmissionStatuses : UAS_Begin("p1", a, t)
  \/ UAS_Update("p1")
  \/ UAS_Student("p1")
  \/ UAS_Activate("p1")
  \/ UAS_Existing("p1")
  \/ UAS_Ongoing("p1")
  \/ UAS_Create("p1")
  \/ \E sem \in Semesters : \E d \in {Now, MaxDate} : AS_Begin("p1", "s1", sem, d)
  \/ AS_Ongoing("p1")
  \/ AS_Create("p1")

SpecAdmSeq == Init /\ [][NextAdmSeq]_vars

(***************************************************************************)
(* Semester progression of one student under concurrent requests.  The    *)
(* other student has left (DROPOUT); the student's admission to c1 awaits  *)
(* its confirmation.                                                       *)
(***************************************************************************)
InitSem ==
  /\ studentStatus = [s \in Students |-> IF s = "s1" THEN "ACTIVE" ELSE "DROPOUT"]
  /\ admissions = <<ApplyTransition(NewAdmission("s1", "c1"),
                                     "INITIATED", "PAYMENT_PENDING")>>
  /\ studentSemesters = EmptyBag
  /\ studentSubjects = EmptyBag
  /\ pc = [p \in Procs |-> "idle"]
  /\ loc = [p \in Procs |-> Idle]

NoCriteria == [sessionId |-> None, minSemesterNumber |-> {}]

NextSem ==
  \/ \E p \in Procs : UAS_Begin(p, 1, "CONFIRMED")
  \/ \E p \in Procs : UAS_Update(p)
  \/ \E p \in Procs : UAS_Student(p)
  \/ \E p \in Procs : UAS_Activate(p)
  \/ \E p \in Procs : UAS_Existing(p)
  \/ \E p \in Procs : UAS_Ongoing(p)
  \/ \E p \in Procs : UAS_Create(p)
  \/ \E p \in Procs : \E sem \in SemestersOf("c1") : AS_Begin(p, "s1", sem, MaxDate)
  \/ \E p \in Procs : AS_Ongoing(p)
  \/ \E p \in Procs : AS_Create(p)
  \/ \E p \in Procs : \E sem \in SemestersOf("c1") : USS_Begin(p, "s1", sem, "COMPLETED", {})
  \/ \E p \in Procs : USS_Update(p)
  \/ \E p \in Procs : USS_Next(p)
  \/ \E p \in Procs : USS_Create(p)
  \/ \E p \in Procs : USS_PassOut(p)
  \/ \E p \in Procs : \E sem \in SemestersOf("c1") : BUSS_Begin(p, sem, {"s1"}, "COMPLETED", {})
  \/ \E p \in Procs : BUSS_Update(p)
  \/ \E p \in Procs : BUSS_Find(p)
  \/ \E p \in Procs : BUSS_Next(p)
  \/ \E p \in Procs : BUSS_Create(p)
  \/ \E p \in Procs : \E sem \in SemestersOf("c1") : AA_Begin(p, sem, NoCriteria)
  \/ \E p \in Procs : AA_Create(p)
  \/ \E p \in Procs : \E sem \in SemestersOf("c1") : PR_Begin(p, sem)
  \/ \E p \in Procs : PR_Existing(p)
  \/ \E p \in Procs : PR_Create(p)
  \/ \E p \in Procs : PR_Mark(p)

SpecSem == InitSem /\ [][NextSem]_vars

(***************************************************************************)
(* Semester progression with one request at a time, over every kind of    *)
(* request body                                                            *)
(***************************************************************************)
StatusInputs == {None, "ONGOING", "COMPLETED", "FAILED", "ARCHIVED"}
FeeInputs == {{}, {TRUE}}
Criteria == {NoCriteria, [sessionId |-> "ses2", minSemesterNumber |-> {}],
             [sessionId |-> None, minSemesterNumber |-> {1}]}

NextSemSeq ==
  \/ UAS_Begin("p1", 1, "CONFIRMED")
  \/ UAS_Update("p1")
  \/ UAS_Student("p1")
  \/ UAS_Activate("p1")
  \/ UAS_Existing("p1")
  \/ UAS_Ongoing("p1")
  \/ UAS_Create("p1")
  \/ \E sem \in SemestersOf("c1") : \E d \in {Now, MaxDate} : AS_Begin("p1", "s1", sem, d)
  \/ AS_Ongoing("p1")
  \/ AS_Create("p1")
  \/ \E sem \in SemestersOf("c1") : \E st \in StatusInputs : \E fee \in FeeInputs :
        USS_Begin("p1", "s1", sem, st, fee)
  \/ USS_Update("p1")
  \/ USS_Next("p1")
  \/ USS_Create("p1")
  \/ USS_PassOut("p1")
  \/ \E sem \in SemestersOf("c1") : \E ids \in SUBSET {"s1"} : \E st \in StatusInputs :
        BUSS_Begin("p1", sem, ids, st, {})
  \/ BUSS_Update("p1")
  \/ BUSS_Find("p1")
  \/ BUSS_Next("p1")
  \/ BUSS_Create("p1")
  \/ \E sem \in SemestersOf("c1") : \E crit \in Criteria : AA_Begin("p1", sem, crit)
  \/ AA_Create("p1")
  \/ \E sem \in SemestersOf("c1") : PR_Begin("p1", sem)
  \/ PR_Existing("p1")
  \/ PR_Create("p1")
  \/ PR_Mark("p1")

SpecSemSeq == InitSem /\ [][NextSemSeq]_vars

(***************************************************************************)
(* Subject selection under concurrent requests: student s1 is enrolled in *)
(* semester 1 of c1                                                        *)
(***************************************************************************)
Sem1C1 == [courseId |-> "c1", number |-> 1]

InitSubj ==
  /\ studentStatus = [s \in Students |-> "ACTIVE"]
  /\ admissions = <<>>
  /\ studentSemesters = SetToBag({NewSS("s1", Sem1C1, Now)})
  /\ studentSubjects = EmptyBag
  /\ pc = [p \in Procs |-> "idle"]
  /\ loc = [p \in Procs |-> Idle]

\* the lists of subject ids a bulkAssign request may carry
Batches == UNION {[1..n -> Subjects] : n \in 0..MaxBatch}

NextSubj ==
  \/ \E p \in Procs : \E u \in Users : \E x \in Subjects : \E sem \in SemestersOf("c1") :
        CSS_Begin(p, u, "s1", x, sem)
  \/ \E p \in Procs : CSS_Existing(p)
  \/ \E p \in Procs : CSS_SameType(p)
  \/ \E p \in Procs : CSS_Create(p)
  \/ \E p \in Procs : \E sem \in SemestersOf("c1") : \E q \in Batches :
        BAS_Begin(p, "s1", sem, q)
  \/ \E p \in Procs : BAS_Existing(p)
  \/ \E p \in Procs : BAS_Create(p)
  \/ \E p \in Procs : \E u \in Users : \E x \in Subjects :
        DSS_Begin(p, u, NewSub("s1", x, SubjectSemester(x)))
  \/ \E p \in Procs : DSS_Semester(p)
  \/ \E p \in Procs : DSS_Delete(p)
  \/ \E p \in Procs : USS_Begin(p, "s1", Sem1C1, "FAILED", {})
  \/ \E p \in Procs : USS_Update(p)

SpecSubj == InitSubj /\ [][NextSubj]_vars

(***************************************************************************)
(* Two concurrent assign requests for one enrolled student                 *)
(***************************************************************************)
NextAssign ==
  \/ \E p \in Procs : \E u \in Users : \E x \in Subjects : \E sem \in SemestersOf("c1") :
        CSS_Begin(p, u, "s1", x, sem)
  \/ \E p \in Procs : CSS_Existing(p)
  \/ \E p \in Procs : CSS_SameType(p)
  \/ \E p \in Procs : CSS_Create(p)

SpecAssign == InitSubj /\ [][NextAssign]_vars

(***************************************************************************)
(* Two concurrent bulkAssign requests for one enrolled student             *)
(***************************************************************************)
NextBulkAssign ==
  \/ \E p \in Procs : \E sem \in SemestersOf("c1") : \E q \in Batches :
        BAS_Begin(p, "s1", sem, q)
  \/ \E p \in Procs : BAS_Existing(p)
  \/ \E p \in Procs : BAS_Create(p)

SpecBulkAssign == InitSubj /\ [][NextBulkAssign]_vars

(***************************************************************************)
(* Subject selection and setStatus for one enrolled student, one request   *)
(* at a time                                                               *)
(***************************************************************************)
NextSubjSeq ==
  \/ \E u \in Users : \E x \in Subjects : \E sem \in SemestersOf("c1") :
        CSS_Begin("p1", u, "s1", x, sem)
  \/ CSS_Existing("p1")
  \/ CSS_SameType("p1")
  \/ CSS_Create("p1")
  \/ \E sem \in SemestersOf("c1") : \E q \in Batches : BAS_Begin("p1", "s1", sem, q)
  \/ BAS_Existing("p1")
  \/ BAS_Create("p1")
  \/ \E u \in Users : \E x \in Subjects :
        DSS_Begin("p1", u, NewSub("s1", x, SubjectSemester(x)))
  \/ DSS_Semester("p1")
  \/ DSS_Delete("p1")
  \/ \E sem \in SemestersOf("c1") : \E st \in {"ONGOING", "COMPLETED", "FAILED"} :
        USS_Begin("p1", "s1", sem, st, {})
  \/ USS_Update("p1")
  \/ USS_Next("p1")
  \/ USS_Create("p1")
  \/ USS_PassOut("p1")

SpecSubjSeq == InitSubj /\ [][NextSubjSeq]_vars

(***************************************************************************)
(* The batch operations over two students, one request at a time: the     *)
(* rows come from assignSemester, autoAssign, the COMPLETED cascade and    *)
(* promote                                                                 *)
(***************************************************************************)
InitBatch ==
  /\ studentStatus = [s \in Students |-> "ACTIVE"]
  /\ admissions = <<>>
  /\ studentSemesters = EmptyBag
  /\ studentSubjects = EmptyBag
  /\ pc = [p \in Procs |-> "idle"]
  /\ loc = [p \in Procs |-> Idle]

NextBatchSeq ==
  \/ \E st \in {"ACTIVE", "SUSPENDED"} : Quiet /\ UpdateStudent("s2", st)
  \/ \E sem \in SemestersOf("c1") : AS_Begin("p1", "s1", sem, MaxDate)
  \/ AS_Ongoing("p1")
  \/ AS_Create("p1")
  \/ \E sem \in SemestersOf("c1") : \E crit \in Criteria : AA_Begin("p1", sem, crit)
  \/ AA_Create("p1")
  \/ \E sem \in SemestersOf("c1") : \E ids \in SUBSET Students :
       \E st \in {"COMPLETED", "FAILED"} : BUSS_Begin("p1", sem, ids, st, {})
  \/ BUSS_Update("p1")
  \/ BUSS_Find("p1")
  \/ BUSS_Next("p1")
  \/ BUSS_Create("p1")
  \/ \E sem \in SemestersOf("c1") : PR_Begin("p1", sem)
  \/ PR_Existing("p1")
  \/ PR_Create("p1")
  \/ PR_Mark("p1")

SpecBatchSeq == InitBatch /\ [][NextBatchSeq]_vars

(***************************************************************************)
(* The batch operations of semester.controller.js, one request at a time,  *)
(* where any of their audit writes may throw                               *)
(***************************************************************************)
NextAuditSeq ==
  \/ \E sem \in SemestersOf("c1") : AA_Begin("p1", sem, NoCriteria)
  \/ AA_Create("p1")
  \/ AA_AuditFails("p1")
  \/ \E sem \in SemestersOf("c1") : \E ids \in SUBSET Students :
       BUSS_Begin("p1", sem, ids, "COMPLETED", {})
  \/ BUSS_Update("p1")
  \/ BUSS_Find("p1")
  \/ BUSS_AuditFails("p1")
  \/ BUSS_Next("p1")
  \/ BUSS_Create("p1")
  \/ BUSS_CreateAuditFails("p1")
  \/ \E sem \in SemestersOf("c1") : PR_Begin("p1", sem)
  \/ PR_Existing("p1")
  \/ PR_Create("p1")
  \/ PR_Mark("p1")
  \/ PR_AuditFails("p1")

SpecAuditSeq == InitBatch /\ [][NextAuditSeq]_vars

(***************************************************************************)
(* The operations that write the status of a StudentSemester row, one      *)
(* request at a time, with every status the handlers accept                *)
(***************************************************************************)
NextStatusSeq ==
  \/ \E sem \in SemestersOf("c1") : AA_Begin("p1", sem, NoCriteria)
  \/ AA_Create("p1")
  \/ \E s \in Students : \E sem \in SemestersOf("c1") : \E st \in validStatuses :
       USS_Begin("p1", s, sem, st, {})
  \/ USS_Update("p1")
  \/ USS_Next("p1")
  \/ USS_Create("p1")
  \/ USS_PassOut("p1")
  \/ \E sem \in SemestersOf("c1") : \E st \in validStatuses :
       BUSS_Begin("p1", sem, {"s2"}, st, {})
  \/ BUSS_Update("p1")
  \/ BUSS_Find("p1")
  \/ BUSS_Next("p1")
  \/ BUSS_Create("p1")
  \/ \E sem \in SemestersOf("c1") : PR_Begin("p1", sem)
  \/ PR_Existing("p1")
  \/ PR_Create("p1")
  \/ PR_Mark("p1")

SpecStatusSeq == InitBatch /\ [][NextStatusSeq]_vars

(***************************************************************************)
(* setStatus requests alone, one at a time, for a student enrolled in      *)
(* semester 1 and a student without a row                                  *)
(***************************************************************************)
\* the statuses a request body may name: those of the enum, the empty
\* string and a word outside the enum
RequestStatuses == validStatuses \cup {"", "ARCHIVED"}

NextSetStatusSeq ==
  \/ \E s \in Students : \E sem \in SemestersOf("c1") : \E st \in RequestStatuses :
       \E fee \in FeeInputs : USS_Begin("p1", s, sem, st, fee)
  \/ USS_Update("p1")
  \/ USS_Next("p1")
  \/ USS_Create("p1")
  \/ USS_PassOut("p1")

SpecSetStatusSeq == InitSubj /\ [][NextSetStatusSeq]_vars

(***************************************************************************)
(* Claims about the admission lifecycle                                    *)
(***************************************************************************)
\* the state graph of section 4.1, as the specification draws it
Graph(st) ==
  IF st = "INITIATED" THEN {"PAYMENT_PENDING", "CANCELLED"}
  ELSE IF st = "PAYMENT_PENDING" THEN {"CONFIRMED", "CANCELLED"}
  ELSE {}

HistoryOf(a) == admissions[a].history
AdmIds == 1..Len(admissions)
ConfirmRow == [fromStatus |-> "PAYMENT_PENDING", toStatus |-> "CONFIRMED"]
ConfirmRows(a) == {i \in 1..Len(HistoryOf(a)) : HistoryOf(a)[i] = ConfirmRow}

\* C2: the history rows of every admission, in order of time, form a path
\* of the graph that starts at INITIATED: the first row leaves INITIATED,
\* each row leaves the status the previous row reached, every row is an
\* edge, and no row leaves CONFIRMED or CANCELLED
C2_HistoryIsPath ==
  \A a \in AdmIds :
    LET h == HistoryOf(a)
    IN /\ Len(h) > 0 => h[1].fromStatus = "INITIATED"
       /\ \A i \in 2..Len(h) : h[i].fromStatus = h[i - 1].toStatus
       /\ \A i \in 1..Len(h) : h[i].toStatus \in Graph(h[i].fromStatus)

\* C3: a transition whose target is not allowed from the admission's
\* current status is answered InvalidTransition and changes nothing in
\* the store
C3_InvalidTransitionRejected ==
  [][\A p \in Procs : \A a \in AdmIds : \A t \in AdmissionStatuses :
       (UAS_Begin(p, a, t) /\ t \notin Graph(admissions[a].status))
          => /\ pc'[p] = "idle"
             /\ loc'[p].resp = "InvalidTransition"
             /\ UNCHANGED db]_vars

\* C3 witness: a request was answered InvalidTransition on an admission
\* that is CONFIRMED (a terminal status), and the admission kept its two
\* history rows
C3_Witness ==
  /\ Len(admissions) = 1
  /\ admissions[1].status = "CONFIRMED"
  /\ Len(admissions[1].history) = 2
  /\ loc["p1"].resp = "InvalidTransition"
  /\ pc["p2"] = "idle"

\* C4: an admission row changes only by a transition, which in one step
\* sets the status to the target and appends one history row (the status
\* the call read, the target); the rows before it stay as they were; the
\* status of an admission is always the one its last history row reached
C4_TransitionAtomic ==
  /\ [](\A a \in AdmIds :
          admissions[a].status =
            IF HistoryOf(a) = <<>> THEN "INITIATED"
            ELSE HistoryOf(a)[Len(HistoryOf(a))].toStatus)
  /\ [][\A a \in AdmIds :
          admissions'[a] # admissions[a] =>
            \E p \in Procs :
              /\ pc[p] = "uas_update" /\ loc[p].adm = a
              /\ loc[p].status \in Graph(loc[p].cur)
              /\ admissions'[a].status = loc[p].status
              /\ admissions'[a].history =
                   HistoryOf(a) \o <<[fromStatus |-> loc[p].cur,
                                      toStatus |-> loc[p].status]>>]_vars
  /\ [][\A p \in Procs : \A a \in AdmIds :
          (pc[p] = "idle" /\ pc'[p] = "uas_update" /\ loc'[p].adm = a)
             => loc'[p].cur = admissions[a].status]_vars

\* C4 witness: an admission that made both transitions of a confirmation
C4_Witness ==
  /\ Len(admissions) = 1
  /\ admissions[1].status = "CONFIRMED"
  /\ admissions[1].history =
       <<[fromStatus |-> "INITIATED", toStatus |-> "PAYMENT_PENDING"], ConfirmRow>>

\* C5: of two concurrent confirmations of one PAYMENT_PENDING admission
\* only one succeeds: no admission has two PAYMENT_PENDING -> CONFIRMED
\* history rows
C5_OneConfirmationWins ==
  \A a \in AdmIds : Cardinality(ConfirmRows(a)) <= 1

\* C6: however many times the confirmation cascade ran for an admission,
\* the student has at most one row for semester 1 of its course, and
\* once the cascades have ended the student has exactly one unless a row
\* of another semester is ONGOING
C6_CascadeIdempotent ==
  \A a \in AdmIds :
    LET s == admissions[a].studentId
        sem1 == [courseId |-> admissions[a].courseId, number |-> 1]
        n == CountRows(studentSemesters, LAMBDA r : r.studentId = s /\ r.semesterId = sem1)
    IN (sem1 \in Semesters /\ ConfirmRows(a) # {}) =>
         /\ n <= 1
         /\ (\A p \in Procs : pc[p] \in {"idle", "as_ongoing", "as_create"}) =>
               \/ n = 1
               \/ \E r \in DOMAIN studentSemesters :
                     r.studentId = s /\ r.semesterId # sem1 /\ r.status = "ONGOING"

\* C6 witness: the cascade ran twice for one admission (two confirmation
\* rows), both requests have ended, and the student has one semester-1 row
C6_Witness ==
  /\ Quiet
  /\ Len(admissions) = 1
  /\ Cardinality(ConfirmRows(1)) = 2
  /\ loc["p1"].resp = "StoreError"
  /\ CountRows(studentSemesters, LAMBDA r : r.studentId = "s1") = 1

\* C9: with one request at a time, the confirmation of an admission that
\* went INITIATED -> PAYMENT_PENDING -> CONFIRMED, for a course that has a
\* semester 1 and a student with no row for it and no ONGOING row, ends
\* by adding exactly the row (semester 1, ONGOING, feePaid false), and
\* the student is ACTIVE
C9_ConfirmEnrols ==
  [][\A p \in Procs :
       LET a == loc[p].adm
           s == loc[p].student
           sem1 == [courseId |-> admissions[a].courseId, number |-> 1]
       IN (/\ pc[p] \in {"uas_student", "uas_activate", "uas_existing",
                           "uas_ongoing", "uas_create"}
           /\ pc'[p] = "idle"
           /\ admissions[a].history =
                <<[fromStatus |-> "INITIATED", toStatus |-> "PAYMENT_PENDING"], ConfirmRow>>
           /\ sem1 \in Semesters
           /\ \A r \in DOMAIN studentSemesters :
                 r.studentId = s => r.semesterId # sem1 /\ r.status # "ONGOING")
          => /\ studentSemesters' = studentSemesters (+) SetToBag({
                   [studentId |-> s, semesterId |-> sem1, status |-> "ONGOING",
                    feePaid |-> FALSE, startDate |-> Now]})
             /\ studentStatus'[s] = "ACTIVE"
             /\ loc'[p].resp = "ok"]_vars

\* C9 witness: after the confirmation the student is ACTIVE and has the
\* single ONGOING semester-1 row
C9_Witness ==
  /\ Quiet
  /\ Len(admissions) = 1
  /\ admissions[1].status = "CONFIRMED"
  /\ admissions[1].courseId = "c1"
  /\ studentStatus["s1"] = "ACTIVE"
  /\ studentSemesters = SetToBag({
        [studentId |-> "s1", semesterId |-> [courseId |-> "c1", number |-> 1],
         status |-> "ONGOING", feePaid |-> FALSE, startDate |-> Now]})
  /\ loc["p1"].resp = "ok"

(***************************************************************************)
(* Claims about semester progression                                       *)
(***************************************************************************)
SemRowsOf(s, sem) ==
  CountRows(studentSemesters, LAMBDA r : r.studentId = s /\ r.semesterId = sem)

\* C1: every student has at most one StudentSemester row with status
\* ONGOING, after any sequence of assignSemester, confirmation, setStatus,
\* bulkSetStatus, autoAssign and promote
C1_SingleOngoing ==
  \A s \in Students :
    CountRows(studentSemesters,
              LAMBDA r : r.studentId = s /\ r.status = "ONGOING") <= 1

\* C8: there is at most one StudentSemester row per (student, semester),
\* whichever operation created it and however the operations interleave
C8_OneRowPerSemester ==
  \A s \in Students : \A sem \in Semesters : SemRowsOf(s, sem) <= 1

\* C8 witness: a create raced with another creator of the same pair and
\* was refused by the store; the pair has its single row
C8_Witness ==
  /\ Quiet
  /\ loc["p1"].resp = "StoreError"
  /\ loc["p2"].resp = "ok"
  /\ SemRowsOf("s1", [courseId |-> "c1", number |-> 2]) = 1

\* C10: setStatus COMPLETED on a semester that has a next semester goes on
\* to the lookup of the student's next-semester row; when there is none it
\* adds exactly the row (next semester, ONGOING, feePaid false), when
\* there is one it changes nothing; the student never has two rows of the
\* next semester
C10_CompletedCreatesNext ==
  /\ [](\A s \in Students : \A sem \in Semesters : SemRowsOf(s, sem) <= 1)
  /\ [][\A p \in Procs :
          LET s == loc[p].student
              nxt == [courseId |-> loc[p].sem.courseId,
                      number |-> loc[p].sem.number + 1]
              has == \E r \in DOMAIN studentSemesters :
                        r.studentId = s /\ r.semesterId = nxt
          IN /\ (pc[p] = "uss_update" /\ loc[p].status = "COMPLETED"
                   /\ nxt \in Semesters)
                => /\ pc'[p] = "uss_next"
                   /\ loc'[p] = loc[p]
                   /\ \A r \in DOMAIN studentSemesters' :
                        SSKey(r, s, loc[p].sem) => r.status = "COMPLETED"
             /\ (pc[p] = "uss_next" /\ has)
                => /\ pc'[p] = "idle"
                   /\ loc'[p].resp = "ok"
                   /\ UNCHANGED db
             /\ (pc[p] = "uss_next" /\ ~has)
                => /\ pc'[p] = "uss_create"
                   /\ loc'[p] = loc[p]
                   /\ UNCHANGED db
             /\ pc[p] = "uss_create"
                => /\ pc'[p] = "idle"
                   /\ loc'[p].resp = "ok"
                   /\ studentSemesters' = studentSemesters (+) SetToBag({
                        [studentId |-> s, semesterId |-> nxt, status |-> "ONGOING",
                         feePaid |-> FALSE, startDate |-> Now]})
                   /\ UNCHANGED <<studentStatus, admissions, studentSubjects>>]_vars

\* C10 witness: semester 1 is COMPLETED and the student has the row of
\* semester 2 as the cascade creates it
C10_Witness ==
  /\ Quiet
  /\ loc["p1"].resp = "ok"
  /\ studentSemesters = SetToBag({
        [studentId |-> "s1", semesterId |-> [courseId |-> "c1", number |-> 1],
         status |-> "COMPLETED", feePaid |-> FALSE, startDate |-> MaxDate],
        [studentId |-> "s1", semesterId |-> [courseId |-> "c1", number |-> 2],
         status |-> "ONGOING", feePaid |-> FALSE, startDate |-> Now]})

(***************************************************************************)
(* Claims about subject selection                                          *)
(***************************************************************************)
\* C7: the StudentSubject rows hold at most one row per (student, subject,
\* semester) and, for each of the types MJC, MIC and MDC, at most one row
\* per (student, semester) whose subject has that type
C7_SubjectUniqueness ==
  /\ \A r \in DOMAIN studentSubjects : studentSubjects[r] <= 1
  /\ \A s \in Students : \A sem \in Semesters : \A ty \in {"MJC", "MIC", "MDC"} :
       CountRows(studentSubjects,
                 LAMBDA r : /\ r.studentId = s
                            /\ r.semesterId = sem
                            /\ SubjectType(r.subjectId) = ty) <= 1

\* the number of StudentSemester rows of the store
TotalRows(ss) == CountRows(ss, LAMBDA r : TRUE)

\* C11: setStatus COMPLETED on a semester that has no next semester goes
\* on, after the update of the row, to set the student's status to
\* PASSED_OUT; the call creates no StudentSemester row and answers ok
C11_LastSemesterPassesOut ==
  [][\A p \in Procs :
       LET s == loc[p].student
           nxt == [courseId |-> loc[p].sem.courseId, number |-> loc[p].sem.number + 1]
       IN /\ (pc[p] = "uss_update" /\ loc[p].status = "COMPLETED"
                /\ nxt \notin Semesters)
             => /\ pc'[p] = "uss_passout"
                /\ loc'[p] = loc[p]
                /\ TotalRows(studentSemesters') = TotalRows(studentSemesters)
                /\ \A r \in DOMAIN studentSemesters' :
                     SSKey(r, s, loc[p].sem) => r.status = "COMPLETED"
          /\ pc[p] = "uss_passout"
             => /\ nxt \notin Semesters
                /\ studentStatus' = [studentStatus EXCEPT ![s] = "PASSED_OUT"]
                /\ UNCHANGED <<admissions, studentSemesters, studentSubjects>>
                /\ pc'[p] = "idle"
                /\ loc'[p].resp = "ok"]_vars

\* C11 witness: the row of the last semester of c1 is COMPLETED, it is the
\* student's only row, and the student is PASSED_OUT
C11_Witness ==
  /\ Quiet
  /\ loc["p1"].resp = "ok"
  /\ studentStatus["s1"] = "PASSED_OUT"
  /\ TotalRows(studentSemesters) = 1
  /\ \E r \in DOMAIN studentSemesters :
        /\ SSKey(r, "s1", [courseId |-> "c1", number |-> NumSem])
        /\ r.status = "COMPLETED"

\* C12: when a bulkSetStatus call ends, every listed student who has a row
\* in the semester is left as setStatus leaves that student: the row has
\* the requested status; with COMPLETED and a next semester the student
\* has a row of the next semester; with COMPLETED and no next semester
\* the student's status is PASSED_OUT
C12_BulkMatchesSetStatus ==
  [][\A p \in Procs :
       (pc[p] \in {"buss_find", "buss_next", "buss_create"} /\ pc'[p] = "idle"
          /\ loc'[p].resp = "ok")
       => \A s \in loc[p].batch :
            HasSS(studentSemesters', s, loc[p].sem) =>
              /\ loc[p].status # None =>
                   \A r \in DOMAIN studentSemesters' :
                      SSKey(r, s, loc[p].sem) => r.status = loc[p].status
              /\ (loc[p].status = "COMPLETED" /\ NextSemester(loc[p].sem) # NoSem)
                   => HasSS(studentSemesters', s, NextSemester(loc[p].sem))
              /\ (loc[p].status = "COMPLETED" /\ NextSemester(loc[p].sem) = NoSem)
                   => studentStatus'[s] = "PASSED_OUT"]_vars

(***************************************************************************)
(* Claims about the batch operations                                       *)
(***************************************************************************)
\* the students autoAssign must enrol in sem under criteria crit, as the
\* specification lists the conditions
MustEnrol(sem, crit) ==
  {s \in Students :
     /\ StudentCourse(s) = sem.courseId
     /\ studentStatus[s] = "ACTIVE"
     /\ crit.sessionId # None => StudentSession(s) = crit.sessionId
     /\ crit.minSemesterNumber # {} =>
          \E r \in DOMAIN studentSemesters :
             /\ r.studentId = s /\ r.status = "COMPLETED"
             /\ \A n \in crit.minSemesterNumber : r.semesterId.number <= n
     /\ SemRowsOf(s, sem) = 0
     /\ CountRows(studentSemesters,
                  LAMBDA r : r.studentId = s /\ r.status = "ONGOING") = 0
     /\ \/ sem.number = 1
        \/ \E r \in DOMAIN studentSemesters :
              /\ r.studentId = s /\ r.status = "COMPLETED"
              /\ r.semesterId.courseId = sem.courseId
              /\ r.semesterId.number = sem.number - 1}

MustPromote(sem) ==
  {s \in Students :
     /\ \E r \in DOMAIN studentSemesters : SSKey(r, s, sem) /\ r.status = "COMPLETED"
     /\ SemRowsOf(s, NextSemester(sem)) = 0}

\* C14: promote of a semester with no next semester answers NotFound and
\* changes nothing; otherwise its create step adds exactly one ONGOING row
\* of the next semester for every student with a COMPLETED row in the
\* semester and no row in the next one, and its last step leaves the
\* source rows of those students PROMOTED and every other row as it was
C14_PromoteCreatesAndMarks ==
  [][\A p \in Procs :
       /\ \A sem \in Semesters :
            (PR_Begin(p, sem) /\ NextSemester(sem) = NoSem)
              => (loc'[p].resp = "NotFound" /\ UNCHANGED db)
       /\ pc[p] = "pr_create"
            => /\ loc[p].batch = MustPromote(loc[p].sem)
               /\ studentSemesters' = studentSemesters (+) SetToBag({
                     [studentId |-> s, semesterId |-> NextSemester(loc[p].sem),
                      status |-> "ONGOING", feePaid |-> FALSE, startDate |-> Now] :
                     s \in MustPromote(loc[p].sem)})
               /\ pc'[p] = "pr_mark"
               /\ UNCHANGED <<studentStatus, admissions, studentSubjects>>
       /\ pc[p] = "pr_mark"
            => /\ \A r \in DOMAIN studentSemesters' :
                    (r.semesterId = loc[p].sem /\ r.studentId \in loc[p].batch)
                      => r.status = "PROMOTED"
               /\ \A r \in DOMAIN studentSemesters :
                    ~(r.semesterId = loc[p].sem /\ r.studentId \in loc[p].batch)
                      => CopiesIn(r, studentSemesters') = CopiesIn(r, studentSemesters)
               /\ TotalRows(studentSemesters') = TotalRows(studentSemesters)
               /\ UNCHANGED <<studentStatus, admissions, studentSubjects>>]_vars

\* C14 witness: promote of semester 1 has ended; s1, whose COMPLETED row
\* had no successor, has a PROMOTED row in semester 1 and an ONGOING row
\* in semester 2
C14_Witness ==
  /\ Quiet
  /\ loc["p1"].resp = "ok"
  /\ \E r \in DOMAIN studentSemesters :
        SSKey(r, "s1", [courseId |-> "c1", number |-> 1]) /\ r.status = "PROMOTED"
  /\ \E r \in DOMAIN studentSemesters :
        SSKey(r, "s1", [courseId |-> "c1", number |-> 2]) /\ r.status = "ONGOING"

\* the students of rows ss that a promote of sem would move on
PromotableIn(ss, sem) ==
  {s \in Students :
     /\ \E r \in DOMAIN ss : SSKey(r, s, sem) /\ r.status = "COMPLETED"
     /\ CountRows(ss, LAMBDA r : SSKey(r, s, NextSemester(sem))) = 0}

\* C15: when a promote call ends, no student of the semester is left to
\* promote; a promote that begins in such a state selects nobody, creates
\* no row and changes no status; and the create step of promote never
\* adds a row for a student who already has a row of the next semester
C15_PromoteIdempotent ==
  [][\A p \in Procs :
       /\ (pc[p] = "pr_mark" /\ pc'[p] = "idle")
            => PromotableIn(studentSemesters', loc[p].sem) = {}
       /\ (pc[p] = "pr_existing" /\ PromotableIn(studentSemesters, loc[p].sem) = {})
            => (loc'[p].batch = {} /\ UNCHANGED db)
       /\ (pc[p] \in {"pr_create", "pr_mark"} /\ loc[p].batch = {})
            => UNCHANGED db
       /\ pc[p] = "pr_create"
            => \A s \in Students :
                 SemRowsOf(s, NextSemester(loc[p].sem)) > 0
                   => CountRows(studentSemesters',
                                LAMBDA r : SSKey(r, s, NextSemester(loc[p].sem)))
                        = SemRowsOf(s, NextSemester(loc[p].sem))]_vars

\* C15 witness: a promote of a semester that was promoted before (s2 is
\* PROMOTED there) is at its last step having selected nobody, while s1 is
\* COMPLETED in the semester with the successor row the cascade gave
C15_Witness ==
  /\ pc["p1"] = "pr_mark"
  /\ loc["p1"].batch = {}
  /\ \E r \in DOMAIN studentSemesters :
        SSKey(r, "s2", loc["p1"].sem) /\ r.status = "PROMOTED"
  /\ \E r \in DOMAIN studentSemesters :
        SSKey(r, "s1", loc["p1"].sem) /\ r.status = "COMPLETED"
  /\ SemRowsOf("s1", NextSemester(loc["p1"].sem)) = 1

(***************************************************************************)
(* Claims about the subject selection                                      *)
(***************************************************************************)
\* the reasons of failure of a bulkAssign request that its first step sees
BatchRejected(sem, q) ==
  \/ \E i \in 1..Len(q) : SubjectSemester(q[i]) # sem
  \/ \E i, j \in 1..Len(q) :
        /\ i # j
        /\ SubjectType(q[i]) = SubjectType(q[j])
        /\ SubjectType(q[i]) \in {"MJC", "MIC", "MDC"}

\* C16: a request that is answered at its first step creates no row; a
\* bulkAssign request gets past its first step only if all its subjects
\* are of the semester and no two are of one MJC/MIC/MDC type; it gets
\* past its lookup of existing rows only if none of its rows exists; and
\* its last step either answers success and adds exactly one row per
\* subjectId, or answers an error and leaves the rows unchanged
C16_BulkAssignAllOrNothing ==
  [][\A p \in Procs :
       /\ (pc[p] = "idle" /\ pc'[p] = "idle" /\ loc'[p] # loc[p])
            => UNCHANGED studentSubjects
       /\ (pc[p] = "idle" /\ pc'[p] = "bas_existing")
            => /\ UNCHANGED studentSubjects
               /\ ~BatchRejected(loc'[p].sem, loc'[p].subs)
       /\ (pc[p] = "bas_existing" /\ pc'[p] # "bas_existing")
            => /\ UNCHANGED studentSubjects
               /\ (\E x \in Range(loc[p].subs) :
                      [studentId |-> loc[p].student, subjectId |-> x,
                       semesterId |-> loc[p].sem] \in DOMAIN studentSubjects)
                    => (pc'[p] = "idle" /\ loc'[p].resp # "ok")
       /\ (pc[p] = "bas_create" /\ pc'[p] = "idle")
            => IF loc'[p].resp = "ok"
               THEN studentSubjects' = studentSubjects (+) SetToBag({
                        [studentId |-> loc[p].student, subjectId |-> x,
                         semesterId |-> loc[p].sem] : x \in Range(loc[p].subs)})
               ELSE UNCHANGED studentSubjects]_vars

\* C16 witness: a bulkAssign of two subjects is about to run its creates
\* when one of the two rows has meanwhile been created by another request
C16_Witness ==
  /\ pc["p1"] = "bas_create"
  /\ Range(loc["p1"].subs) = {"mjcA", "secA"}
  /\ HasSub(studentSubjects, "s1", "secA", Sem1C1)
  /\ ~HasSub(studentSubjects, "s1", "mjcA", Sem1C1)

\* student s holds a subject of type ty in semester sem
HoldsType(s, sem, ty) ==
  \E r \in DOMAIN studentSubjects :
     r.studentId = s /\ r.semesterId = sem /\ SubjectType(r.subjectId) = ty

\* C17: an assign request for a subject of type MJC, MIC or MDC never
\* reaches its create without the same-type lookup, and that lookup ends
\* the request with ExclusiveTypeConflict and no new row when the student
\* holds a subject of the type in the semester; a request for a subject
\* of another type whose row does not exist goes on to its create and
\* the create succeeds, whatever subjects of the type the student holds
C17_ExclusiveTypeConflict ==
  [][\A p \in Procs :
       LET ty == SubjectType(loc[p].subj)
           row == [studentId |-> loc[p].student, subjectId |-> loc[p].subj,
                   semesterId |-> loc[p].sem]
       IN /\ (pc[p] = "css_sametype" /\ pc'[p] # "css_sametype"
                 /\ HoldsType(loc[p].student, loc[p].sem, ty))
               => /\ pc'[p] = "idle"
                  /\ loc'[p].resp = "ExclusiveTypeConflict"
                  /\ UNCHANGED studentSubjects
          /\ (pc[p] # "css_create" /\ pc'[p] = "css_create"
                 /\ SubjectType(loc'[p].subj) \in {"MJC", "MIC", "MDC"})
               => (pc[p] = "css_sametype"
                     /\ ~HoldsType(loc[p].student, loc[p].sem, ty))
          /\ (pc[p] = "css_existing" /\ pc'[p] # "css_existing"
                 /\ ty \in {"SEC", "VAC"} /\ row \notin DOMAIN studentSubjects)
               => pc'[p] = "css_create"
          /\ (pc[p] = "css_create" /\ pc'[p] # "css_create"
                 /\ ty \in {"SEC", "VAC"} /\ row \notin DOMAIN studentSubjects)
               => /\ loc'[p].resp = "ok"
                  /\ studentSubjects' = studentSubjects (+) SetToBag({row})]_vars

\* C17 witness: a request was answered ExclusiveTypeConflict while s1
\* holds MJC subject A and not B, and s1 holds both SEC subjects
C17_Witness ==
  /\ \E p \in Procs : pc[p] = "idle" /\ loc[p].resp = "ExclusiveTypeConflict"
  /\ HasSub(studentSubjects, "s1", "mjcA", Sem1C1)
  /\ ~HasSub(studentSubjects, "s1", "mjcB", Sem1C1)
  /\ HasSub(studentSubjects, "s1", "secA", Sem1C1)
  /\ HasSub(studentSubjects, "s1", "secB", Sem1C1)

\* C18: of the assign requests for two different subjects of one
\* MJC/MIC/MDC type in one semester at most one creates its row: the
\* student never holds both subjects
C18_OneExclusiveAssignWins ==
  \A s \in Students : \A x, y \in Subjects :
     (/\ x # y
      /\ SubjectSemester(x) = SubjectSemester(y)
      /\ SubjectType(x) = SubjectType(y)
      /\ SubjectType(x) \in {"MJC", "MIC", "MDC"})
     => ~(/\ [studentId |-> s, subjectId |-> x, semesterId |-> SubjectSemester(x)]
               \in DOMAIN studentSubjects
          /\ [studentId |-> s, subjectId |-> y, semesterId |-> SubjectSemester(y)]
               \in DOMAIN studentSubjects)

(***************************************************************************)
(* Claims about the audit log                                              *)
(***************************************************************************)
\* C19: no request ends with the error of its audit write, and a
\* bulkSetStatus to COMPLETED that ends without a store error has given
\* every student it updated a row of the next semester, if there is one
C19_AuditFailureNotPropagated ==
  [][\A p \in Procs :
       (pc[p] # "idle" /\ pc'[p] = "idle")
         => /\ loc'[p].resp # "AuditError"
            /\ (/\ loc[p].op = "bulkSetStatus"
                /\ loc[p].status = "COMPLETED"
                /\ NextSemester(loc[p].sem) # NoSem
                /\ loc'[p].resp # "StoreError")
                 => \A s \in loc[p].batch :
                      HasSS(studentSemesters', s, loc[p].sem)
                        => HasSS(studentSemesters', s, NextSemester(loc[p].sem))]_vars

(***************************************************************************)
(* Claims about the admission routes                                       *)
(***************************************************************************)
\* C20: no step removes an admission, and every step that changes the
\* status of an admission moves it along an edge of the graph of
\* section 4.1, between statuses of the enum
C20_StatusMovesAlongGraph ==
  [][/\ Len(admissions') >= Len(admissions)
     /\ \A a \in 1..Len(admissions) :
          /\ admissions'[a].studentId = admissions[a].studentId
          /\ admissions'[a].courseId = admissions[a].courseId
          /\ admissions'[a].status # admissions[a].status
               => /\ admissions'[a].status \in Graph(admissions[a].status)
                  /\ admissions'[a].status \in
                       {"INITIATED", "PAYMENT_PENDING", "CONFIRMED", "CANCELLED"}]_vars

(***************************************************************************)
(* Claims about the status of a StudentSemester row                        *)
(***************************************************************************)
\* the statuses of the rows of student s in semester sem
StatusesAt(ss, s, sem) == {r.status : r \in {x \in DOMAIN ss : SSKey(x, s, sem)}}

\* C21: a row becomes PROMOTED only from COMPLETED and only in the last
\* step of promote, and an ONGOING row becomes COMPLETED or FAILED only in
\* the update step of setStatus or bulkSetStatus
C21_PromotedOnlyByPromote ==
  [][\A s \in Students : \A sem \in Semesters :
       LET old == StatusesAt(studentSemesters, s, sem)
           new == StatusesAt(studentSemesters', s, sem)
       IN /\ ("PROMOTED" \in new /\ "PROMOTED" \notin old)
               => /\ old = {"COMPLETED"}
                  /\ \E p \in Procs : pc[p] = "pr_mark"
          /\ (old = {"ONGOING"} /\ new \cap {"COMPLETED", "FAILED"} # {})
               => \E p \in Procs : pc[p] \in {"uss_update", "buss_update"}]_vars

(***************************************************************************)
(* Claims about the rows of StudentSubject                                 *)
(***************************************************************************)
\* C22: a StudentSubject row is created only while the student has an
\* ONGOING StudentSemester row for the semester of the new row
C22_CreatedOnlyWhileOngoing ==
  [][\A r \in DOMAIN studentSubjects' :
       CopiesIn(r, studentSubjects') > CopiesIn(r, studentSubjects)
         => \E e \in DOMAIN studentSemesters :
               /\ e.studentId = r.studentId
               /\ e.semesterId = r.semesterId
               /\ e.status = "ONGOING"]_vars

(***************************************************************************)
(* Claims about the Admission rows                                         *)
(***************************************************************************)
\* C23: no two Admission rows have the same (studentId, courseId)
C23_OneAdmissionPerPair ==
  \A i, j \in 1..Len(admissions) :
     (/\ admissions[i].studentId = admissions[j].studentId
      /\ admissions[i].courseId = admissions[j].courseId) => i = j

\* C24: a setStatus request whose status is not one of ONGOING, COMPLETED,
\* FAILED, PROMOTED ends at its first step with InvalidStatus, and one
\* for a (student, semester) without a row ends there with NotFound; in
\* both cases nothing is written
C24_SetStatusRejects ==
  [][\A p \in Procs : \A s \in Students : \A sem \in Semesters :
       \A st \in RequestStatuses : \A fee \in FeeInputs :
         USS_Begin(p, s, sem, st, fee) =>
           LET valid == st \in {"ONGOING", "COMPLETED", "FAILED", "PROMOTED"}
               found == SemRowsOf(s, sem) > 0
           IN /\ (~valid \/ ~found)
                   => /\ pc'[p] = "idle"
                      /\ loc'[p].resp \in {"InvalidStatus", "NotFound"}
                      /\ UNCHANGED db
              /\ (~valid /\ found) => loc'[p].resp = "InvalidStatus"
              /\ (valid /\ ~found) => loc'[p].resp = "NotFound"]_vars

(***************************************************************************)
(* Claims about bulkSetStatus                                              *)
(***************************************************************************)
\* the listed students of request p that have a row in its semester
UpdatedOf(ss, p) == {s \in loc[p].batch : HasSS(ss, s, loc[p].sem)}

\* C25: the updates of a bulkSetStatus request never end the request,
\* whether the student has a row or not; when they are done every listed
\* student with a row has the requested status; and the response of a
\* request that ends with success carries the number of students updated
\* and the number skipped
C25_BulkFailsSoft ==
  [][\A p \in Procs :
       /\ pc[p] = "buss_update" => pc'[p] \in {"buss_update", "buss_find"}
       /\ (pc[p] = "buss_update" /\ pc'[p] = "buss_find")
            => \A r \in DOMAIN studentSemesters' :
                 (r.studentId \in loc[p].batch /\ r.semesterId = loc[p].sem)
                   => r.status = loc[p].status
       /\ (pc[p] \in {"buss_find", "buss_next", "buss_create"} /\ pc'[p] = "idle"
             /\ loc'[p].resp = "ok")
            => LET body == BUSS_Response(UpdatedOf(studentSemesters', p))
                   updated == Cardinality(UpdatedOf(studentSemesters', p))
               IN /\ body.updatedCount = updated
                  /\ "skippedCount" \in DOMAIN body
                  /\ body.skippedCount = Cardinality(loc[p].batch) - updated]_vars

(***************************************************************************)
(* Claims about the cases in which the confirmation cascade is skipped     *)
(***************************************************************************)
\* the steps of the cascade that follow the update to CONFIRMED
CascadeSteps == {"uas_student", "uas_activate", "uas_existing", "uas_ongoing",
                 "uas_create"}

\* C26: the cascade reaches its create only when the admission's course
\* has a semester 1, the student has no row of it and no ONGOING row at
\* all; no other step of the cascade writes a StudentSemester row; a
\* cascade that ends without the create answers success; and through the
\* whole cascade the admission stays CONFIRMED with its history row
C26_CascadeSkips ==
  [][\A p \in Procs :
       LET s == loc[p].student
           sem1 == FindSemester(admissions[loc[p].adm].courseId, 1)
       IN /\ (pc[p] \in CascadeSteps /\ pc[p] # "uas_create" /\ pc'[p] = "uas_create")
               => /\ sem1 # NoSem
                  /\ SemRowsOf(s, sem1) = 0
                  /\ CountRows(studentSemesters,
                               LAMBDA r : r.studentId = s /\ r.status = "ONGOING") = 0
          /\ (pc[p] \in CascadeSteps /\ pc[p] # "uas_create")
               => /\ studentSemesters' = studentSemesters
                  /\ pc'[p] = "idle" => loc'[p].resp = "ok"
          /\ pc[p] \in CascadeSteps
               => /\ admissions' = admissions
                  /\ admissions[loc[p].adm].status = "CONFIRMED"
                  /\ Len(admissions[loc[p].adm].history) > 0
                  /\ admissions[loc[p].adm].history[Len(admissions[loc[p].adm].history)]
                       = [fromStatus |-> "PAYMENT_PENDING", toStatus |-> "CONFIRMED"]]_vars

\* C26 witness: a confirmation has looked for the student's rows and found
\* no row of semester 1 but an ONGOING row of another semester
C26_Witness ==
  /\ pc["p1"] = "uas_ongoing"
  /\ ~loc["p1"].flag
  /\ admissions[loc["p1"].adm].status = "CONFIRMED"
  /\ \E r \in DOMAIN studentSemesters :
        /\ r.studentId = loc["p1"].student
        /\ r.status = "ONGOING"
        /\ r.semesterId # FindSemester(admissions[loc["p1"].adm].courseId, 1)

(***************************************************************************)
(* Assigning and deleting the subjects of one student while setStatus      *)
(* moves the semester, one request at a time                               *)
(***************************************************************************)
NextDeleteSeq ==
  \/ \E x \in Subjects : \E sem \in SemestersOf("c1") :
        CSS_Begin("p1", Staff, "s1", x, sem)
  \/ CSS_Existing("p1")
  \/ CSS_SameType("p1")
  \/ CSS_Create("p1")
  \/ \E u \in Users : \E x \in Subjects :
        DSS_Begin("p1", u, NewSub("s1", x, SubjectSemester(x)))
  \/ DSS_Semester("p1")
  \/ DSS_Delete("p1")
  \/ \E sem \in SemestersOf("c1") : \E st \in validStatuses :
        USS_Begin("p1", "s1", sem, st, {})
  \/ USS_Update("p1")
  \/ USS_Next("p1")
  \/ USS_Create("p1")
  \/ USS_PassOut("p1")

SpecDeleteSeq == InitSubj /\ [][NextDeleteSeq]_vars

(***************************************************************************)
(* Claims about deleting a subject assignment                              *)
(***************************************************************************)
\* the closed statuses of a StudentSemester
ClosedStatuses == {"COMPLETED", "FAILED", "PROMOTED"}

\* C27: a student's delete of another student's row is refused; a student's
\* delete of an own row whose StudentSemester is COMPLETED, FAILED or
\* PROMOTED is refused and the row kept, and it goes on to the delete only
\* when that StudentSemester is ONGOING; a delete by staff goes on to the
\* delete whatever the status; the delete removes the row
C27_StudentDeletesOnlyOngoing ==
  [][\A p \in Procs :
       LET row == NewSub(loc[p].student, loc[p].subj, loc[p].sem)
           statuses == StatusesAt(studentSemesters, loc[p].student, loc[p].sem)
       IN /\ \A u \in Students : \A x \in Subjects :
               LET r == NewSub("s1", x, SubjectSemester(x))
               IN (DSS_Begin(p, u, r) /\ r \in DOMAIN studentSubjects /\ u # r.studentId)
                     => /\ pc'[p] = "idle"
                        /\ loc'[p].resp = "Forbidden"
                        /\ studentSubjects' = studentSubjects
          /\ (pc[p] = "dss_semester" /\ statuses \cap ClosedStatuses # {})
               => /\ pc'[p] = "idle"
                  /\ loc'[p].resp = "SemesterClosed"
                  /\ studentSubjects' = studentSubjects
          /\ (pc[p] = "dss_semester" /\ pc'[p] = "dss_delete")
               => statuses = {"ONGOING"}
          /\ \A x \in Subjects :
               LET r == NewSub("s1", x, SubjectSemester(x))
               IN (DSS_Begin(p, Staff, r) /\ r \in DOMAIN studentSubjects)
                     => pc'[p] = "dss_delete"
          /\ (pc[p] = "dss_delete" /\ row \in DOMAIN studentSubjects)
               => /\ studentSubjects' = studentSubjects (-) SetToBag({row})
                  /\ loc'[p].resp = "ok"]_vars

\* C27 witness: a student's delete of an own row has been refused because
\* the semester is FAILED, and the row is still there
C27_Witness ==
  /\ pc["p1"] = "idle"
  /\ loc["p1"].resp = "SemesterClosed"
  /\ \E r \in DOMAIN studentSubjects :
        StatusesAt(studentSemesters, r.studentId, r.semesterId) = {"FAILED"}

\* C27 second witness: staff are about to delete a row of a PROMOTED semester
C27_StaffWitness ==
  /\ pc["p1"] = "dss_delete"
  /\ StatusesAt(studentSemesters, loc["p1"].student, loc["p1"].sem) = {"PROMOTED"}
  /\ NewSub(loc["p1"].student, loc["p1"].subj, loc["p1"].sem) \in DOMAIN studentSubjects

(***************************************************************************)
(* Claims about the course of an enrollment                                *)
(***************************************************************************)
\* C28: every StudentSemester row is in a semester of its student's course
C28_SemesterOfOwnCourse ==
  \A r \in DOMAIN studentSemesters :
     r.semesterId.courseId = StudentCourse(r.studentId)

(***************************************************************************)
(* Claims about a student who has passed out                               *)
(***************************************************************************)
\* C29: a student who is PASSED_OUT has no ONGOING StudentSemester
C29_PassedOutHasNoOngoing ==
  \A s \in Students :
     studentStatus[s] = "PASSED_OUT" => OngoingOf(studentSemesters, s) = {}

(***************************************************************************)
(* Admissions, their confirmation and the subject assignments of one       *)
(* student, one request at a time                                          *)
(***************************************************************************)
NextCourseSeq ==
  \/ \E st \in {"ACTIVE", "SUSPENDED"} : Quiet /\ UpdateStudent("s1", st)
  \/ \E c \in Courses : CA_Begin("p1", "s1", c)
  \/ CA_Create("p1")
  \/ \E a \in 1..(Len(admissions) + 1) : \E t \in {"PAYMENT_PENDING", "CONFIRMED"} :
        UAS_Begin("p1", a, t)
  \/ UAS_Update("p1")
  \/ UAS_Student("p1")
  \/ UAS_Activate("p1")
  \/ UAS_Existing("p1")
  \/ UAS_Ongoing("p1")
  \/ UAS_Create("p1")
  \/ \E x \in Subjects : \E sem \in Semesters : CSS_Begin("p1", Staff, "s1", x, sem)
  \/ CSS_Existing("p1")
  \/ CSS_SameType("p1")
  \/ CSS_Create("p1")
  \/ \E sem \in Semesters : \E q \in Batches : BAS_Begin("p1", "s1", sem, q)
  \/ BAS_Existing("p1")
  \/ BAS_Create("p1")

SpecCourseSeq == Init /\ [][NextCourseSeq]_vars

(***************************************************************************)
(* Claims about the curriculum of a subject assignment                     *)
(***************************************************************************)
\* C30: every StudentSubject row has a StudentSemester row of its student
\* and semester, its subject is a subject of that semester, and that
\* semester is a semester of the student's course
C30_SubjectRowInCurriculum ==
  \A r \in DOMAIN studentSubjects :
     /\ HasSS(studentSemesters, r.studentId, r.semesterId)
     /\ SubjectSemester(r.subjectId) = r.semesterId
     /\ r.semesterId.courseId = StudentCourse(r.studentId)

====
